---- MODULE Spec2Model ----
(***************************************************************************)
(* Model of the dynamic schema registry and permission-gated CRUD server   *)
(* of src/server/index.js: the boot loader, the publish endpoint, the      *)
(* model registration (Sequelize model + Express routes + table sync),     *)
(* the generated CRUD handlers and the schema discovery / lookup           *)
(* endpoints.                                                              *)
(***************************************************************************)
EXTENDS Naturals, Sequences, FiniteSets, TLC

(***************************************************************************)
(* Bounds of the model.                                                    *)
(***************************************************************************)
\* number of HTTP requests (CRUD, discovery, lookup) served in one run
MaxRequests == 1
\* primary keys the Table Store hands out are 1..MaxRowId
MaxRowId == 2

Publishers == {"p1", "p2"}

(***************************************************************************)
(* Data: roles, actions, field types, model definitions.                   *)
(***************************************************************************)
Roles == {"Admin", "Manager", "Viewer"}

\* the actions the five generated handlers are built with
CrudActions == {"create", "read", "update", "delete"}

FieldTypes == {"string", "number", "boolean", "date"}

Fld(n, t, r) == [name |-> n, type |-> t, required |-> r]

FullRbac ==
    [r \in Roles |->
        CASE r = "Admin" -> <<"all">>
          [] r = "Manager" -> <<"read", "create", "update">>
          [] OTHER -> <<"read">>]

\* Manager loses create/update, Viewer has no entry at all
NarrowRbac ==
    [r \in {"Admin", "Manager"} |->
        IF r = "Admin" THEN <<"all">> ELSE <<"read">>]

\* Viewer gains create
WideRbac ==
    [r \in Roles |->
        IF r = "Admin" THEN <<"all">> ELSE <<"read", "create">>]

\* A request body / definition file content.  keys is the set of properties
\* present in the JSON object; tableName = "" stands for an absent tableName.
Body(ks, n, fs, rb) ==
    [keys |-> ks, name |-> n, tableName |-> "", fields |-> fs, rbac |-> rb]

AllKeys == {"name", "fields", "rbac"}

ProductV1 ==
    Body(AllKeys, "Product",
         <<Fld("name", "string", TRUE), Fld("price", "number", TRUE)>>,
         FullRbac)

ProductV2 ==
    Body(AllKeys, "Product",
         <<Fld("price", "number", TRUE), Fld("inStock", "boolean", FALSE)>>,
         NarrowRbac)

OrderV1 ==
    Body(AllKeys, "Order", <<Fld("total", "number", TRUE)>>, WideRbac)

EmptyFields == Body(AllKeys, "Empty", <<>>, FullRbac)

DupFields ==
    Body(AllKeys, "Dup",
         <<Fld("code", "string", TRUE), Fld("code", "number", FALSE)>>,
         FullRbac)

BadType == Body(AllKeys, "Blob", <<Fld("data", "json", FALSE)>>, FullRbac)

EmptyName == Body(AllKeys, "", <<Fld("name", "string", TRUE)>>, FullRbac)

\* a valid definition whose route base is the path of the schema endpoints
ModelsV1 == Body(AllKeys, "Models", <<Fld("label", "string", TRUE)>>, FullRbac)

\* a name that differs from "Product" only in case
LowerProduct == Body(AllKeys, "product", <<Fld("sku", "string", TRUE)>>, WideRbac)

\* a name whose default table name is the table of the User model
UserV1 == Body(AllKeys, "User", <<Fld("email", "string", TRUE)>>, FullRbac)

NoRbac ==
    Body({"name", "fields"}, "Product", <<Fld("name", "string", TRUE)>>, <<>>)

\* the bodies the publishers send
PublishInputs ==
    {ProductV1, ProductV2, OrderV1, ModelsV1, LowerProduct, UserV1,
     EmptyFields, DupFields, BadType, EmptyName, NoRbac}

\* the publish requests of the model: the first publisher sends any body but
\* ProductV2 as Admin, or tries as a Viewer; the second one is the Admin who
\* publishes Product again with another field set and a narrowed matrix
PublishRequests(p) ==
    IF p = "p1"
    THEN {<<"Admin", b>> : b \in PublishInputs \ {ProductV2}}
            \cup {<<"Viewer", ProductV2>>}
    ELSE {<<"Admin", ProductV2>>}

\* String.prototype.toLowerCase on the model names of the model
toLowerCase(s) ==
    CASE s = "Product" -> "product"
      [] s = "Order" -> "order"
      [] s = "Empty" -> "empty"
      [] s = "Dup" -> "dup"
      [] s = "Blob" -> "blob"
      [] s = "Models" -> "models"
      [] s = "User" -> "user"
      [] OTHER -> s

(***************************************************************************)
(* Pure functions of the server.                                           *)
(***************************************************************************)
\* Array.prototype.includes
includes(arr, x) == \E i \in 1..Len(arr) : arr[i] = x

\* getSequelizeType: unknown types fall through to STRING
getSequelizeType(type) ==
    CASE type = "string" -> "STRING"
      [] type = "number" -> "FLOAT"
      [] type = "boolean" -> "BOOLEAN"
      [] type = "date" -> "DATE"
      [] OTHER -> "STRING"

\* createRbacMiddleware: TRUE when the middleware calls next(), FALSE when it
\* answers 403
RbacNoAll(rbac, userRole, action) ==
    /\ userRole \in DOMAIN rbac
    /\ includes(rbac[userRole], action)

\* the middleware with only the truthiness test of the role's entry
RbacAnyEntry(rbac, userRole, action) == userRole \in DOMAIN rbac

createRbacMiddleware(rbac, userRole, action) ==
    /\ userRole \in DOMAIN rbac
    /\ includes(rbac[userRole], action) \/ includes(rbac[userRole], "all")

\* an adminOnly that lets every authenticated caller through
AdminOnlyOff(role) == TRUE

\* adminOnly: TRUE when the middleware calls next(), FALSE when it answers 403
adminOnly(role) == role = "Admin"

\* tableName = modelConfig.tableName || `${modelName.toLowerCase()}s`
TableNameOf(cfg) ==
    IF cfg.tableName # "" THEN cfg.tableName ELSE toLowerCase(cfg.name) \o "s"

\* the schema object built by the loop over modelConfig.fields: a later field
\* of the same name overwrites the earlier one
RECURSIVE SchemaFrom(_, _)
SchemaFrom(fields, acc) ==
    IF fields = <<>> THEN acc
    ELSE LET f == Head(fields)
             col == [type |-> getSequelizeType(f.type), allowNull |-> ~f.required]
         IN SchemaFrom(Tail(fields),
                       [n \in DOMAIN acc \cup {f.name} |->
                           IF n = f.name THEN col ELSE acc[n]])

EmptySchema == [n \in {} |-> 0]

\* sequelize.define(modelName, schema, { tableName })
Define(cfg) ==
    [name |-> cfg.name, tableName |-> TableNameOf(cfg),
     schema |-> SchemaFrom(cfg.fields, EmptySchema)]

\* line 288: !modelName || !modelConfig.fields || !modelConfig.rbac
\* (an empty array and an empty object are truthy, an empty string is not)
PublishRejects(body) ==
    \/ "name" \notin body.keys
    \/ body.name = ""
    \/ "fields" \notin body.keys
    \/ "rbac" \notin body.keys

(***************************************************************************)
(* State.                                                                  *)
(***************************************************************************)
VARIABLES
    phase,          \* startServer: "boot" until app.listen, then "listening"
    boot,           \* loadModelsFromFiles: its position, the files left, its log
    files,          \* the models-config directory: file |-> content
    dynamicModels,  \* the dynamicModels map: model name |-> {model, config}
    routes,         \* the route stack of dynamicApiRouter, in registration order
    tables,         \* the database: table name |-> columns and rows
    pub,            \* the POST /api/models/publish requests in flight
    req,            \* the CRUD / discovery / lookup request in flight
    nreq,           \* requests started so far
    ev              \* a single evaluation of the RBAC middleware

vars == <<phase, boot, files, dynamicModels, routes, tables, pub, req, nreq, ev>>

File(base, ext) == [base |-> base, ext |-> ext]

\* path.join(MODELS_CONFIG_DIR, `${modelName}.json`)
ConfigFile(modelName) == File(modelName, "json")

Parsed(body) == [ok |-> TRUE, json |-> body]

NullBody == Body({}, "", <<>>, <<>>)

\* a file fs.readJson throws on
Malformed == [ok |-> FALSE, json |-> NullBody]

FilePut(fs, f, content) ==
    [g \in DOMAIN fs \cup {f} |-> IF g = f THEN content ELSE fs[g]]

NoFiles == [f \in {} |-> Malformed]

\* the directory contents the server may find at boot
InitialStores ==
    { NoFiles,
      FilePut(FilePut(FilePut(NoFiles, ConfigFile("Product"), Parsed(ProductV1)),
                      ConfigFile("Broken"), Malformed),
              File("notes", "txt"), Malformed) }

\* every order fs.readdir may list a directory in
Orders(S) ==
    {q \in [1..Cardinality(S) -> S] : \A i, j \in DOMAIN q : i # j => q[i] # q[j]}

\* the User model of src/server/index.js:357-377, synced before boot loading
UsersTable ==
    [cols |-> [c \in {"username", "password", "role"} |->
                  [type |-> IF c = "role" THEN "ENUM" ELSE "STRING",
                   allowNull |-> FALSE]],
     rows |-> [i \in {} |-> "v0"]]

TablePut(tbls, t, v) ==
    [u \in DOMAIN tbls \cup {t} |-> IF u = t THEN v ELSE tbls[u]]

\* the tables a previous run left for the persisted definitions
RECURSIVE TablesFor(_, _)
TablesFor(fs, S) ==
    IF S = {} THEN TablePut([t \in {} |-> UsersTable], "users", UsersTable)
    ELSE LET f == CHOOSE g \in S : TRUE
             rest == TablesFor(fs, S \ {f})
         IN IF f.ext = "json" /\ fs[f].ok
            THEN TablePut(rest, TableNameOf(fs[f].json),
                          [cols |-> Define(fs[f].json).schema,
                           rows |-> [i \in {1} |-> "v0"]])
            ELSE rest

IdlePub ==
    [pc |-> "idle", role |-> "Admin", cfg |-> NullBody, status |-> 0,
     stage |-> "none", after |-> {}, prev |-> [n \in {} |-> 0], reg |-> 0]

NoSeg == [kind |-> "none", id |-> 0, name |-> ""]
IdSeg(i) == [kind |-> "id", id |-> i, name |-> ""]
NameSeg(n) == [kind |-> "name", id |-> 0, name |-> n]

IdleReq ==
    [pc |-> "idle", method |-> "GET", base |-> "", seg |-> NoSeg,
     role |-> "Admin", handler |-> "none", route |-> 0, ops |-> 0,
     status |-> 0, body |-> {}]

IdleEv ==
    [pc |-> "off", matrix |-> [r \in {} |-> <<>>], role |-> "Admin",
     action |-> "read", result |-> FALSE]

Init ==
    /\ phase = "boot"
    /\ files \in InitialStores
    /\ \E q \in Orders(DOMAIN files) :
          boot = [pc |-> "next", queue |-> q, cfg |-> NullBody,
                  log |-> [f \in {} |-> "none"], error |-> FALSE]
    /\ dynamicModels = [n \in {} |-> 0]
    /\ routes = <<>>
    /\ tables = TablesFor(files, DOMAIN files)
    /\ pub = [p \in Publishers |-> IdlePub]
    /\ req = IdleReq
    /\ nreq = 0
    /\ ev = IdleEv

(***************************************************************************)
(* registerModel: the synchronous part (define, store, add routes) and the *)
(* awaited DynamicModel.sync({ alter: true }).                             *)
(***************************************************************************)
\* a registry that stores a normalised copy of the definition: 'all' expanded
\* into the explicit actions
ExpandAll(rbac) ==
    [r \in DOMAIN rbac |->
        IF includes(rbac[r], "all")
        THEN <<"create", "read", "update", "delete">>
        ELSE rbac[r]]

RegistryPutExpanded(dm, cfg) ==
    [n \in DOMAIN dm \cup {cfg.name} |->
        IF n = cfg.name
        THEN [model |-> Define(cfg),
              config |-> [cfg EXCEPT !.rbac = ExpandAll(cfg.rbac)]]
        ELSE dm[n]]

\* dynamicModels[modelName] = { model: DynamicModel, config: modelConfig }
RegistryPut(dm, cfg) ==
    [n \in DOMAIN dm \cup {cfg.name} |->
        IF n = cfg.name THEN [model |-> Define(cfg), config |-> cfg] ELSE dm[n]]

\* the five routes of one registration: POST and GET on routeBase, GET, PUT
\* and DELETE on routeBase/:id, all closed over modelConfig and DynamicModel.
\* base is routeBase without its leading slash.
RouteOf(cfg) ==
    [base |-> toLowerCase(cfg.name), config |-> cfg, model |-> Define(cfg)]

\* dynamicApiRouter.post/get/put/delete append to the router's stack; nothing
\* removes the routes of an earlier registration
RoutesAdd(rts, cfg) == Append(rts, RouteOf(cfg))

registerModel(cfg) ==
    /\ dynamicModels' = RegistryPut(dynamicModels, cfg)
    /\ routes' = RoutesAdd(routes, cfg)

\* DynamicModel.sync({ alter: true }) when it succeeds: the table is created
\* or altered to the model's columns, its rows are kept
SyncAlter(tbls, model) ==
    TablePut(tbls, model.tableName,
             [cols |-> model.schema,
              rows |-> IF model.tableName \in DOMAIN tbls
                       THEN tbls[model.tableName].rows
                       ELSE [i \in {} |-> "v0"]])

\* the entry of the registry under one name, as a function on {} or {name}
EntryOf(dm, name) == [n \in DOMAIN dm \cap {name} |-> dm[n]]

(***************************************************************************)
(* startServer / loadModelsFromFiles.                                      *)
(***************************************************************************)
BootLog(f, what) == FilePut(boot.log, f, what)

\* one iteration of the for loop up to its await of registerModel's sync
BootRead ==
    /\ phase = "boot"
    /\ boot.pc = "next"
    /\ boot.queue # <<>>
    /\ LET f == Head(boot.queue)
       IN IF f.ext # "json"
          THEN /\ boot' = [boot EXCEPT !.queue = Tail(@)]
               /\ UNCHANGED <<dynamicModels, routes>>
          ELSE IF ~files[f].ok
          THEN \* fs.readJson throws: the catch around the loop ends loading
               /\ boot' = [boot EXCEPT !.pc = "done", !.error = TRUE,
                                        !.log = BootLog(f, "failed")]
               /\ UNCHANGED <<dynamicModels, routes>>
          ELSE /\ registerModel(files[f].json)
               /\ boot' = [boot EXCEPT !.pc = "sync", !.cfg = files[f].json]
    /\ UNCHANGED <<phase, files, tables, pub, req, nreq, ev>>

\* the awaited sync of the file's model settles
BootSync(ok) ==
    /\ phase = "boot"
    /\ boot.pc = "sync"
    /\ LET f == Head(boot.queue)
       IN IF ok
          THEN /\ tables' = SyncAlter(tables, Define(boot.cfg))
               /\ boot' = [boot EXCEPT !.pc = "next", !.queue = Tail(@),
                                        !.log = BootLog(f, "registered")]
          ELSE \* registerModel rejects: the catch around the loop ends loading
               /\ tables' = tables
               /\ boot' = [boot EXCEPT !.pc = "done", !.error = TRUE,
                                        !.log = BootLog(f, "failed")]
    /\ UNCHANGED <<phase, files, dynamicModels, routes, pub, req, nreq, ev>>

\* a startServer that does not await loadModelsFromFiles before app.listen
BootListenEarly ==
    /\ phase = "boot"
    /\ phase' = "listening"
    /\ UNCHANGED <<boot, files, dynamicModels, routes, tables, pub, req, nreq, ev>>

\* loadModelsFromFiles has returned: app.listen
BootListen ==
    /\ phase = "boot"
    /\ boot.pc = "done" \/ (boot.pc = "next" /\ boot.queue = <<>>)
    /\ phase' = "listening"
    /\ boot' = [boot EXCEPT !.pc = "done", !.queue = <<>>]
    /\ UNCHANGED <<files, dynamicModels, routes, tables, pub, req, nreq, ev>>

(***************************************************************************)
(* POST /api/models/publish.                                               *)
(***************************************************************************)
InFlight(p) == pub[p].pc \in {"writing", "written", "syncing"}

Finish(p, code, stage) ==
    pub' = [pub EXCEPT ![p].pc = "done", ![p].status = code, ![p].stage = stage]

\* authMiddleware, adminOnly, the check of line 288, then fs.writeJson starts
PublishStart(p, role, body) ==
    /\ phase = "listening"
    /\ pub[p].pc = "idle"
    /\ LET me == [pub[p] EXCEPT !.role = role, !.cfg = body,
                                !.after = {q \in Publishers : pub[q].pc = "done"}]
       IN IF ~adminOnly(role)
          THEN pub' = [pub EXCEPT ![p] = [me EXCEPT !.pc = "done", !.status = 403,
                                                    !.stage = "auth"]]
          ELSE IF PublishRejects(body)
          THEN pub' = [pub EXCEPT ![p] = [me EXCEPT !.pc = "done", !.status = 400,
                                                    !.stage = "validate"]]
          ELSE pub' = [pub EXCEPT ![p] = [me EXCEPT !.pc = "writing"]]
    /\ UNCHANGED <<phase, boot, files, dynamicModels, routes, tables, req, nreq, ev>>

\* fs.writeJson writes the definition file
PublishWrite(p) ==
    /\ pub[p].pc = "writing"
    /\ files' = FilePut(files, ConfigFile(pub[p].cfg.name), Parsed(pub[p].cfg))
    /\ pub' = [pub EXCEPT ![p].pc = "written"]
    /\ UNCHANGED <<phase, boot, dynamicModels, routes, tables, req, nreq, ev>>

\* a handler that goes on to register although fs.writeJson rejected
PublishWriteFailRegisters(p) ==
    /\ pub[p].pc = "writing"
    /\ registerModel(pub[p].cfg)
    /\ pub' = [pub EXCEPT ![p].pc = "syncing",
                          ![p].prev = EntryOf(dynamicModels, pub[p].cfg.name),
                          ![p].reg = Len(routes')]
    /\ UNCHANGED <<phase, boot, files, tables, req, nreq, ev>>

\* fs.writeJson rejects, nothing was written: catch, 500
PublishWriteFail(p) ==
    /\ pub[p].pc = "writing"
    /\ Finish(p, 500, "write")
    /\ UNCHANGED <<phase, boot, files, dynamicModels, routes, tables, req, nreq, ev>>

\* a registerModel behind one lock for all names: it waits while another
\* registration is syncing
PublishRegisterLocked(p) ==
    /\ pub[p].pc = "written"
    /\ \A q \in Publishers \ {p} : pub[q].pc # "syncing"
    /\ registerModel(pub[p].cfg)
    /\ pub' = [pub EXCEPT ![p].pc = "syncing",
                          ![p].prev = EntryOf(dynamicModels, pub[p].cfg.name),
                          ![p].reg = Len(routes')]
    /\ UNCHANGED <<phase, boot, files, tables, req, nreq, ev>>

\* the handler resumes after the write: registerModel up to its await
PublishRegister(p) ==
    /\ pub[p].pc = "written"
    /\ registerModel(pub[p].cfg)
    /\ pub' = [pub EXCEPT ![p].pc = "syncing",
                          ![p].prev = EntryOf(dynamicModels, pub[p].cfg.name),
                          ![p].reg = Len(routes')]
    /\ UNCHANGED <<phase, boot, files, tables, req, nreq, ev>>

\* the database creates or alters the table, registerModel resolves: 201
PublishSync(p) ==
    /\ pub[p].pc = "syncing"
    /\ tables' = SyncAlter(tables, Define(pub[p].cfg))
    /\ Finish(p, 201, "ok")
    /\ UNCHANGED <<phase, boot, files, dynamicModels, routes, req, nreq, ev>>

\* sync rejects: registerModel rejects, catch, 500
PublishSyncFail(p) ==
    /\ pub[p].pc = "syncing"
    /\ Finish(p, 500, "sync")
    /\ UNCHANGED <<phase, boot, files, dynamicModels, routes, tables, req, nreq, ev>>

(***************************************************************************)
(* Requests to /api: the generated CRUD routes, GET /api/models and        *)
(* GET /api/models/:modelName.                                             *)
(***************************************************************************)
Line(method, base, seg) == [method |-> method, base |-> base, seg |-> seg]

\* the ids requests ask for: the first and the last primary key
AskedIds == {1, MaxRowId}

\* the request lines of the model; base is the first path segment below /api
\* (Express matches it case-insensitively), seg the second one if any
CrudLines ==
    {Line("POST", "product", NoSeg), Line("GET", "product", NoSeg)}
        \cup {Line(m, "product", IdSeg(i)) :
                 m \in {"GET", "PUT", "DELETE"}, i \in AskedIds}

SchemaLines ==
    {Line("GET", "models", NoSeg), Line("GET", "models", NameSeg("Product")),
     Line("GET", "models", NameSeg("Order"))}

\* every CRUD line by an Admin and by a Viewer, the schema endpoints and an
\* unrouted line by a Viewer
Requests ==
    {<<l, r>> : l \in CrudLines, r \in {"Admin", "Viewer"}}
        \cup {<<l, "Viewer">> : l \in SchemaLines \cup {Line("PUT", "product", NoSeg)}}

\* app.use('/api', dynamicApiRouter) comes before the app.get routes: the
\* router's stack is searched first, in registration order
FirstRoute(rts, base) ==
    IF \E i \in 1..Len(rts) : rts[i].base = base
    THEN CHOOSE i \in 1..Len(rts) :
            /\ rts[i].base = base
            /\ \A j \in 1..(i - 1) : rts[j].base # base
    ELSE 0

\* which of the five routes of a registration a method and path shape match
HandlerFor(method, seg) ==
    CASE method = "POST" /\ seg.kind = "none" -> "Create"
      [] method = "GET" /\ seg.kind = "none" -> "ListAll"
      [] method = "GET" /\ seg.kind # "none" -> "GetById"
      [] method = "PUT" /\ seg.kind # "none" -> "Update"
      [] method = "DELETE" /\ seg.kind # "none" -> "Delete"
      [] OTHER -> "none"

\* the action each route's createRbacMiddleware is built with
ActionOf(handler) ==
    CASE handler = "Create" -> "create"
      [] handler = "Update" -> "update"
      [] handler = "Delete" -> "delete"
      [] OTHER -> "read"

\* Object.values(dynamicModels).map(m => m.config)
Discovery(dm) == {dm[n].config : n \in DOMAIN dm}

\* GET /api/models/:modelName: the config, or nothing with 404
Lookup(dm, name) == {dm[n].config : n \in DOMAIN dm \cap {name}}

Respond(r, code) == [r EXCEPT !.pc = "done", !.status = code]

\* a request arrives: routing, authMiddleware, and either the RBAC
\* middleware of the matched generated route or a schema endpoint
ReqStart(method, base, seg, role) ==
    /\ phase = "listening"
    /\ req.pc \in {"idle", "done"}
    /\ nreq < MaxRequests
    /\ nreq' = nreq + 1
    /\ LET i == FirstRoute(routes, base)
           h == HandlerFor(method, seg)
           r == [IdleReq EXCEPT !.method = method, !.base = base, !.seg = seg,
                                !.role = role]
       IN IF i # 0 /\ h # "none"
          THEN LET g == [r EXCEPT !.handler = h, !.route = i]
               IN IF createRbacMiddleware(routes[i].config.rbac, role, ActionOf(h))
                  THEN req' = [g EXCEPT !.pc = "op1"]
                  ELSE req' = Respond(g, 403)
          ELSE IF base = "models" /\ method = "GET" /\ seg.kind = "none"
          THEN req' = [Respond(r, 200) EXCEPT !.handler = "Discovery",
                                              !.body = Discovery(dynamicModels)]
          ELSE IF base = "models" /\ method = "GET"
          THEN LET found == Lookup(dynamicModels, seg.name)
               IN req' = [Respond(r, IF found = {} THEN 404 ELSE 200)
                             EXCEPT !.handler = "Lookup", !.body = found]
          ELSE req' = Respond(r, 404)
    /\ UNCHANGED <<phase, boot, files, dynamicModels, routes, tables, pub, ev>>

\* the Sequelize model the serving handler closed over
ReqModel == routes[req.route].model

\* a statement of that model can succeed only on a table that has its columns
TableOk(model) ==
    /\ model.tableName \in DOMAIN tables
    /\ DOMAIN model.schema \subseteq DOMAIN tables[model.tableName].cols

RowsOf(model) == tables[model.tableName].rows

SetRows(model, rows) ==
    tables' = [tables EXCEPT ![model.tableName].rows = rows]

\* a findByPk that always yields an item
FindAlways(rows, id) == TRUE

\* DynamicModel.findByPk(req.params.id): TRUE when it yields an item, FALSE
\* when it yields null
findByPk(rows, id) == id \in DOMAIN rows

\* the handler's first Table Store call settles successfully
ReqFirstCall ==
    /\ req.pc = "op1"
    /\ TableOk(ReqModel)
    /\ LET rows == RowsOf(ReqModel)
           r == [req EXCEPT !.ops = @ + 1]
       IN CASE req.handler = "Create" ->
                 /\ DOMAIN rows # 1..MaxRowId
                 /\ LET id == CHOOSE i \in 1..MaxRowId :
                                 /\ i \notin DOMAIN rows
                                 /\ \A j \in 1..(i - 1) : j \in DOMAIN rows
                    IN SetRows(ReqModel,
                               [k \in DOMAIN rows \cup {id} |->
                                   IF k = id THEN "v0" ELSE rows[k]])
                 /\ req' = Respond(r, 201)
            [] req.handler = "ListAll" ->
                 /\ req' = Respond(r, 200)
                 /\ tables' = tables
            [] req.handler = "GetById" ->
                 /\ req' = Respond(r, IF findByPk(rows, req.seg.id) THEN 200 ELSE 404)
                 /\ tables' = tables
            [] OTHER ->
                 \* Update and Delete: findByPk, then 404 or the second call
                 /\ req' = IF findByPk(rows, req.seg.id)
                           THEN [r EXCEPT !.pc = "op2"]
                           ELSE Respond(r, 404)
                 /\ tables' = tables
    /\ UNCHANGED <<phase, boot, files, dynamicModels, routes, pub, nreq, ev>>

\* item.update / item.destroy settles successfully
ReqSecondCall ==
    /\ req.pc = "op2"
    /\ TableOk(ReqModel)
    /\ req.seg.id \in DOMAIN RowsOf(ReqModel)
    /\ LET rows == RowsOf(ReqModel)
           r == [req EXCEPT !.ops = @ + 1]
       IN IF req.handler = "Update"
          THEN /\ SetRows(ReqModel, [rows EXCEPT ![req.seg.id] = "v1"])
               /\ req' = Respond(r, 200)
          ELSE /\ SetRows(ReqModel, [k \in DOMAIN rows \ {req.seg.id} |-> rows[k]])
               /\ req' = Respond(r, 204)
    /\ UNCHANGED <<phase, boot, files, dynamicModels, routes, pub, nreq, ev>>

\* a catch that issues the rejected call again instead of answering
ReqCallFailRetries ==
    /\ req.pc \in {"op1", "op2"}
    /\ req.ops < 3
    /\ req' = [req EXCEPT !.ops = @ + 1]
    /\ UNCHANGED <<phase, boot, files, dynamicModels, routes, tables, pub, nreq, ev>>

\* a catch that also deletes the model's entry from dynamicModels
ReqCallFailDropsEntry ==
    /\ req.pc \in {"op1", "op2"}
    /\ req' = Respond([req EXCEPT !.ops = @ + 1],
                      IF req.handler \in {"Create", "Update"} THEN 400 ELSE 500)
    /\ dynamicModels' =
          [n \in DOMAIN dynamicModels \ {routes[req.route].config.name} |->
              dynamicModels[n]]
    /\ UNCHANGED <<phase, boot, files, routes, tables, pub, nreq, ev>>

\* a Table Store call rejects: the handler's catch answers 400 (Create,
\* Update) or 500 (ListAll, GetById, Delete)
ReqCallFail ==
    /\ req.pc \in {"op1", "op2"}
    /\ req' = Respond([req EXCEPT !.ops = @ + 1],
                      IF req.handler \in {"Create", "Update"} THEN 400 ELSE 500)
    /\ UNCHANGED <<phase, boot, files, dynamicModels, routes, tables, pub, nreq, ev>>

(***************************************************************************)
(* The server.                                                             *)
(***************************************************************************)
Next ==
    \/ BootRead
    \/ \E ok \in BOOLEAN : BootSync(ok)
    \/ BootListen
    \/ \E p \in Publishers : \E pr \in PublishRequests(p) :
          PublishStart(p, pr[1], pr[2])
    \/ \E p \in Publishers : PublishWrite(p)
    \/ \E p \in Publishers : PublishWriteFail(p)
    \/ \E p \in Publishers : PublishRegister(p)
    \/ \E p \in Publishers : PublishSync(p)
    \/ \E p \in Publishers : PublishSyncFail(p)
    \/ \E rq \in Requests :
          ReqStart(rq[1].method, rq[1].base, rq[1].seg, rq[2])
    \/ ReqFirstCall
    \/ ReqSecondCall
    \/ ReqCallFail

Spec == Init /\ [][Next]_vars

(***************************************************************************)
(* The RBAC middleware alone, on matrices, roles and actions drawn from    *)
(* small sets (roles and actions outside the enumerations included).       *)
(***************************************************************************)
EvArrays ==
    {<<>>, <<"all">>, <<"read">>, <<"read", "create">>, <<"delete", "all">>,
     <<"export">>}

EvMatrices == UNION {[D -> EvArrays] : D \in SUBSET {"Admin", "Viewer"}}

EvRoles == {"Admin", "Viewer", "Manager"}

EvActions == CrudActions \cup {"all", "export", "purge"}

InitRbac ==
    /\ phase = "boot"
    /\ files = NoFiles
    /\ boot = [pc |-> "next", queue |-> <<>>, cfg |-> NullBody,
               log |-> [f \in {} |-> "none"], error |-> FALSE]
    /\ dynamicModels = [n \in {} |-> 0]
    /\ routes = <<>>
    /\ tables = TablesFor(NoFiles, {})
    /\ pub = [p \in Publishers |-> IdlePub]
    /\ req = IdleReq
    /\ nreq = 0
    /\ \E m \in EvMatrices, r \in EvRoles, a \in EvActions :
          ev = [pc |-> "ready", matrix |-> m, role |-> r, action |-> a,
                result |-> FALSE]

\* the middleware runs: next() or 403
Evaluate ==
    /\ ev.pc = "ready"
    /\ ev' = [ev EXCEPT !.pc = "done",
                        !.result = createRbacMiddleware(ev.matrix, ev.role, ev.action)]
    /\ UNCHANGED <<phase, boot, files, dynamicModels, routes, tables, pub, req, nreq>>

NextRbac == Evaluate

SpecRbac == InitRbac /\ [][NextRbac]_vars

(***************************************************************************)
(* Vocabulary of the properties.                                           *)
(***************************************************************************)
Elems(arr) == {arr[i] : i \in DOMAIN arr}

\* the permission rule of the specification, on action sets
Permits(matrix, role, action) ==
    /\ role \in DOMAIN matrix
    /\ action \in Elems(matrix[role]) \/ "all" \in Elems(matrix[role])

\* the action a CRUD request asks for
ActionOfMethod(method) ==
    CASE method = "POST" -> "create"
      [] method = "PUT" -> "update"
      [] method = "DELETE" -> "delete"
      [] OTHER -> "read"

\* the publisher's registerModel has run its synchronous part
Registered(p) ==
    \/ pub[p].pc = "syncing"
    \/ pub[p].pc = "done" /\ pub[p].stage \in {"ok", "sync"}

Published(p) == pub[p].pc = "done" /\ pub[p].status = 201

\* p's publish has completed and no other publish overlapped or followed it
LatestPublish(p) ==
    /\ Published(p)
    /\ \A q \in Publishers \ {p} :
          pub[q].pc = "idle" \/ (pub[q].pc = "done" /\ q \in pub[p].after)

\* the definition the generated routes of a model name are served with
ServedConfig(name) == routes[FirstRoute(routes, toLowerCase(name))].config

ServedModel(name) == routes[FirstRoute(routes, toLowerCase(name))].model

\* no two registrations under different names share a route base or a table
NoNameClash ==
    \A i, j \in DOMAIN routes :
        routes[i].config.name # routes[j].config.name
            => /\ routes[i].base # routes[j].base
               /\ routes[i].model.tableName # routes[j].model.tableName

HasDuplicateField(fields) ==
    \E i, j \in DOMAIN fields : i # j /\ fields[i].name = fields[j].name

\* the definitions the validation of the specification rejects
Invalid(cfg) ==
    \/ cfg.name = ""
    \/ cfg.fields = <<>>
    \/ HasDuplicateField(cfg.fields)
    \/ \E i \in DOMAIN cfg.fields : cfg.fields[i].type \notin FieldTypes

(***************************************************************************)
(* C1..C10.                                                                *)
(***************************************************************************)
\* C1: for every matrix, role and action (actions outside create/read/update/
\* delete included) the permission check allows iff the matrix has an entry
\* for the role and the entry contains the action or 'all'; a role without an
\* entry is denied everything.
C1_PermissionCheck ==
    ev.pc = "done" =>
        /\ ev.result <=> Permits(ev.matrix, ev.role, ev.action)
        /\ ev.role \notin DOMAIN ev.matrix => ~ev.result

\* an action outside the enumeration is allowed through 'all' alone
C1_Witness ==
    /\ ev.pc = "done"
    /\ ev.result
    /\ ev.action = "purge"
    /\ ev.role \in DOMAIN ev.matrix
    /\ "purge" \notin Elems(ev.matrix[ev.role])

\* C2: a request served by one of the five generated handlers whose role is
\* not allowed the handler's action, under the permission matrix the handler
\* was generated with, is answered 403 and executes no Table Store call.
C2_DeniedBeforeStorage ==
    (/\ req.route # 0
     /\ ~Permits(routes[req.route].config.rbac, req.role,
                 ActionOfMethod(req.method)))
        => /\ req.pc = "done"
           /\ req.status = 403
           /\ req.ops = 0

\* a Viewer's Delete has been denied
C2_Witness ==
    /\ req.route # 0
    /\ req.handler = "Delete"
    /\ req.role = "Viewer"
    /\ req.pc = "done"
    /\ req.status = 403
    /\ req.ops = 0

\* C3: once a re-publish of a model with a narrowed matrix has completed, a
\* CRUD request for that model that starts afterwards and asks for an action
\* the new matrix has removed for its role is denied.
C3_NarrowedDeniedNext ==
    [][\A rq \in Requests, p \in Publishers :
          (/\ ReqStart(rq[1].method, rq[1].base, rq[1].seg, rq[2])
           /\ rq[1] \in CrudLines
           /\ LatestPublish(p)
           /\ rq[1].base = toLowerCase(pub[p].cfg.name)
           /\ pub[p].cfg.name \in DOMAIN pub[p].prev
           /\ Permits(pub[p].prev[pub[p].cfg.name].config.rbac, rq[2],
                      ActionOfMethod(rq[1].method))
           /\ ~Permits(pub[p].cfg.rbac, rq[2], ActionOfMethod(rq[1].method)))
              => req'.status = 403]_vars

\* C4: in every state and for every registered name, the definition the
\* schema lookup returns and the definition (matrix, fields, storage model)
\* the handlers serving the name's CRUD routes use are the same (checked in
\* the states where no other name shares the name's route base).
C4_LookupMatchesHandlers ==
    NoNameClash =>
        \A n \in DOMAIN dynamicModels :
            /\ FirstRoute(routes, toLowerCase(n)) # 0
            /\ Lookup(dynamicModels, n) = {ServedConfig(n)}
            /\ dynamicModels[n].model = ServedModel(n)

\* C5: when the registration of a publish has failed (the table sync
\* rejected) and no other publish touched the name, the registry entry of
\* the name is what it was before the attempt.
C5_FailedRegisterKeepsEntry ==
    \A p \in Publishers :
        (/\ pub[p].pc = "done"
         /\ pub[p].stage = "sync"
         /\ \A q \in Publishers \ {p} :
               pub[q].pc = "idle" \/ pub[q].cfg.name # pub[p].cfg.name)
            => EntryOf(dynamicModels, pub[p].cfg.name) = pub[p].prev

\* C6: the outcome of a publish that persisted its file and then failed to
\* register differs from the outcome of a publish that failed without
\* persisting anything.
C6_PartialPublishDistinct ==
    \A p, q \in Publishers :
        (/\ pub[p].pc = "done" /\ pub[p].stage = "sync"
         /\ pub[q].pc = "done" /\ pub[q].stage = "write")
            => pub[p].status # pub[q].status

\* C7: when boot loading has finished, every valid persisted definition whose
\* own registration did not fail is registered.
C7_BootRegistersValid ==
    (phase = "listening" /\ \A p \in Publishers : pub[p].pc = "idle")
        => \A f \in DOMAIN files :
              (/\ f.ext = "json"
               /\ files[f].ok
               /\ (f \in DOMAIN boot.log => boot.log[f] # "failed"))
                  => files[f].json.name \in DOMAIN dynamicModels

\* C8: after two successive successful publishes of one name with different
\* field sets there is one entry of that name, and discovery, lookup and the
\* CRUD handlers all show the second definition.
C8_SecondDefinitionWins ==
    \A p, q \in Publishers :
        (/\ p # q
         /\ Published(p) /\ Published(q)
         /\ p \in pub[q].after
         /\ pub[p].cfg.name = pub[q].cfg.name
         /\ pub[p].cfg.fields # pub[q].cfg.fields)
            => /\ {c \in Discovery(dynamicModels) : c.name = pub[q].cfg.name}
                     = {pub[q].cfg}
               /\ Lookup(dynamicModels, pub[q].cfg.name) = {pub[q].cfg}
               /\ ServedConfig(pub[q].cfg.name) = pub[q].cfg

\* C9: after a register, the lookup of the name returns the definition as
\* published: the same fields in the same order and the same matrix, 'all'
\* kept as given; and whatever a lookup request returns is a definition
\* exactly as some registration received it.
C9_RegisterThenLookup ==
    /\ \A p \in Publishers :
          (/\ Registered(p)
           /\ \A q \in Publishers \ {p} :
                 (Registered(q) /\ pub[q].cfg.name = pub[p].cfg.name)
                    => pub[q].reg < pub[p].reg)
              => /\ Lookup(dynamicModels, pub[p].cfg.name) = {pub[p].cfg}
                 /\ \A c \in Lookup(dynamicModels, pub[p].cfg.name) :
                       /\ c.fields = pub[p].cfg.fields
                       /\ c.rbac = pub[p].cfg.rbac
    /\ (req.handler = "Lookup" /\ req.status = 200)
          => \A c \in req.body :
                /\ c.name = req.seg.name
                /\ \E i \in DOMAIN routes : routes[i].config = c
                /\ c \in PublishInputs

\* a lookup has returned the definition a publisher registered, 'all' included
C9_Witness ==
    \E p \in Publishers :
        /\ Published(p)
        /\ Len(pub[p].cfg.fields) > 1
        /\ "all" \in Elems(pub[p].cfg.rbac["Admin"])
        /\ Lookup(dynamicModels, pub[p].cfg.name) = {pub[p].cfg}
        /\ req.handler = "Lookup"
        /\ req.status = 200
        /\ req.body = {pub[p].cfg}

\* C10: an Admin's publish of a definition with an empty name, no fields, a
\* repeated field name or an unknown field type is answered 400, and no such
\* definition is in the File Store or in the registry.
C10_InvalidRejected ==
    /\ \A p \in Publishers :
          (pub[p].pc # "idle" /\ pub[p].role = "Admin" /\ Invalid(pub[p].cfg))
             => pub[p].pc = "done" /\ pub[p].status = 400
    /\ \A f \in DOMAIN files : files[f].ok => ~Invalid(files[f].json)
    /\ \A n \in DOMAIN dynamicModels : ~Invalid(dynamicModels[n].config)

(***************************************************************************)
(* C11..C20.                                                               *)
(***************************************************************************)
FieldNames(cfg) == {cfg.fields[i].name : i \in DOMAIN cfg.fields}

\* the check of the publish endpoint has passed for this body
PassesCheck(cfg) == cfg.name # "" /\ {"name", "fields", "rbac"} \subseteq cfg.keys

ColumnTypes == {"STRING", "FLOAT", "BOOLEAN", "DATE"}

\* the table sync of the registration that added route i has succeeded
RouteSynced(i) ==
    \/ \E p \in Publishers : pub[p].reg = i /\ Published(p)
    \/ /\ \A p \in Publishers : pub[p].reg # i
       /\ ConfigFile(routes[i].config.name) \in DOMAIN boot.log
       /\ boot.log[ConfigFile(routes[i].config.name)] = "registered"

\* C11: the permission matrix of every registry entry has a key for each of
\* Admin, Manager and Viewer (a role the published matrix omits is stored with
\* the empty action set).
C11_MatrixHasEveryRole ==
    \A n \in DOMAIN dynamicModels :
        \A r \in Roles : r \in DOMAIN dynamicModels[n].config.rbac

\* C12: a publish validates, then writes the file, then registers: the File
\* Store changes only by a publish that passed the check, the registry and
\* the routes change only by a publish whose file write succeeded, and a
\* publish that ends at the check or at the write leaves the registry alone.
C12_PublishOrder ==
    [][/\ files' # files =>
             \E p \in Publishers :
                /\ pub[p].pc = "writing" /\ pub'[p].pc = "written"
                /\ pub[p].role = "Admin"
                /\ PassesCheck(pub[p].cfg)
                /\ files' = FilePut(files, ConfigFile(pub[p].cfg.name),
                                    Parsed(pub[p].cfg))
       /\ (phase = "listening"
             /\ (dynamicModels' # dynamicModels \/ routes' # routes)) =>
             \E p \in Publishers :
                pub[p].pc = "written" /\ pub'[p].pc = "syncing"
       /\ \A p \in Publishers :
             (pub[p].pc # "done" /\ pub'[p].pc = "done"
                /\ pub'[p].stage \in {"validate", "write"}) =>
                /\ dynamicModels' = dynamicModels
                /\ routes' = routes
                /\ tables' = tables
                /\ pub'[p].reg = 0]_vars

\* one publish went through all three steps, another stopped at a failed write
\* and its name is not in the registry
C12_Witness ==
    \E p, q \in Publishers :
        /\ Published(p)
        /\ pub[p].reg # 0
        /\ files[ConfigFile(pub[p].cfg.name)] = Parsed(pub[p].cfg)
        /\ pub[q].pc = "done" /\ pub[q].stage = "write"
        /\ pub[q].cfg.name \notin DOMAIN dynamicModels

\* C13: when the findByPk of GetById, Update or Delete (the role is allowed
\* the action) succeeds and the table has no row of the given id, the handler
\* answers 404 and the tables are unchanged.
C13_NotFound ==
    [][(/\ ReqFirstCall
        /\ req.handler \in {"GetById", "Update", "Delete"}
        /\ req.seg.id \notin DOMAIN RowsOf(ReqModel))
          => /\ req'.pc = "done"
             /\ req'.status = 404
             /\ tables' = tables]_vars

\* an Admin's Delete of an id the table does not hold was answered 404
C13_Witness ==
    /\ req.pc = "done"
    /\ req.handler = "Delete"
    /\ req.role = "Admin"
    /\ req.status = 404
    /\ req.ops = 1
    /\ req.seg.id \notin DOMAIN RowsOf(ReqModel)

\* C14: the type mapper maps no field type outside string, number, boolean,
\* date to a column type: no registered model has a column for such a field.
C14_UnknownTypeFails ==
    \A i \in DOMAIN routes :
        \A k \in DOMAIN routes[i].config.fields :
            LET f == routes[i].config.fields[k]
            IN f.type \notin FieldTypes =>
                  ~(/\ f.name \in DOMAIN routes[i].model.schema
                    /\ routes[i].model.schema[f.name].type \in ColumnTypes)

\* C15: whatever names are registered, GET /api/models answers with exactly
\* the definitions of the registry and GET /api/models/:modelName with the
\* definition of the name, or 404 when the name is not registered.
C15_SchemaEndpoints ==
    [][\A rq \in Requests :
          (/\ ReqStart(rq[1].method, rq[1].base, rq[1].seg, rq[2])
           /\ rq[1] \in SchemaLines)
             => /\ req'.pc = "done"
                /\ IF rq[1].seg.kind = "none"
                   THEN /\ req'.status = 200
                        /\ req'.body = {dynamicModels[n].config :
                                           n \in DOMAIN dynamicModels}
                   ELSE IF rq[1].seg.name \in DOMAIN dynamicModels
                   THEN /\ req'.status = 200
                        /\ req'.body = {dynamicModels[rq[1].seg.name].config}
                   ELSE req'.status = 404]_vars

\* C16: the table of a name keeps a column for every field of every
\* definition successfully registered under the name (checked in the states
\* where no other name shares the name's table).
C16_ColumnsKept ==
    NoNameClash =>
        /\ \A p \in Publishers :
              Published(p) =>
                 /\ TableNameOf(pub[p].cfg) \in DOMAIN tables
                 /\ FieldNames(pub[p].cfg)
                       \subseteq DOMAIN tables[TableNameOf(pub[p].cfg)].cols
        /\ (/\ ConfigFile(boot.cfg.name) \in DOMAIN boot.log
            /\ boot.log[ConfigFile(boot.cfg.name)] = "registered")
              => FieldNames(boot.cfg)
                    \subseteq DOMAIN tables[TableNameOf(boot.cfg)].cols

\* C17: a publish by a caller who is not an Admin ends at once with 403 and
\* changes neither the File Store nor the registry, the routes or the tables.
C17_NonAdminPublish ==
    [][\A p \in Publishers :
          (pub[p].pc = "idle" /\ pub'[p].pc # "idle" /\ pub'[p].role # "Admin")
             => /\ pub'[p].pc = "done"
                /\ pub'[p].status = 403
                /\ pub'[p].reg = 0
                /\ UNCHANGED <<files, dynamicModels, routes, tables>>]_vars

\* a Viewer's publish of Product was answered 403 and left no Product.json
C17_Witness ==
    \E p \in Publishers :
        /\ pub[p].pc = "done"
        /\ pub[p].role = "Viewer"
        /\ pub[p].status = 403
        /\ pub[p].cfg.name # ""
        /\ ConfigFile(pub[p].cfg.name) \notin DOMAIN files
        /\ pub[p].cfg.name \notin DOMAIN dynamicModels

\* C18: when two publishes of one name have both succeeded, the registry
\* entry and the table schema are those of the same publish.
C18_SamePublishLast ==
    \A p, q \in Publishers :
        (/\ p # q
         /\ Published(p) /\ Published(q)
         /\ pub[p].cfg.name = pub[q].cfg.name)
            => dynamicModels[pub[p].cfg.name].model.schema
                  = tables[TableNameOf(pub[p].cfg)].cols

\* C19: when two publishes of one name have both succeeded, the definition
\* in the name's file is the definition of the registry entry.
C19_FileMatchesRegistry ==
    \A p, q \in Publishers :
        (/\ p # q
         /\ Published(p) /\ Published(q)
         /\ pub[p].cfg.name = pub[q].cfg.name)
            => files[ConfigFile(pub[p].cfg.name)]
                  = Parsed(dynamicModels[pub[p].cfg.name].config)

\* C20: a CRUD request passes the routing and reaches the Table Store only
\* through a registration whose table sync has completed successfully.
C20_ServedAfterSync ==
    (req.route # 0 /\ (req.pc = "op1" \/ req.ops > 0)) => RouteSynced(req.route)

(***************************************************************************)
(* C21..C30.                                                               *)
(***************************************************************************)
\* C21: a CRUD request past its permission check keeps the definition it
\* started with, and a redefinition of its model does not make it fail: in
\* every step of a publish of the request's model name taken while the
\* request waits, its route is unchanged and the table keeps the columns of
\* the request's model.
C21_InFlightCompletes ==
    [][(/\ req.pc \in {"op1", "op2"}
        /\ req' = req
        /\ TableOk(ReqModel)
        /\ \E p \in Publishers :
              /\ pub[p].cfg.name = routes[req.route].config.name
              /\ pub'[p] # pub[p])
          => /\ req.route \in DOMAIN routes'
             /\ routes'[req.route] = routes[req.route]
             /\ ReqModel.tableName \in DOMAIN tables'
             /\ DOMAIN ReqModel.schema
                   \subseteq DOMAIN tables'[ReqModel.tableName].cols]_vars

\* C22: two registrations under different names have different route bases
\* and different tables.
C22_NamesKeptApart ==
    \A i, j \in DOMAIN routes :
        routes[i].config.name # routes[j].config.name
            => /\ routes[i].base # routes[j].base
               /\ routes[i].model.tableName # routes[j].model.tableName

\* C23: the table of the user accounts keeps its columns and rows (the model
\* has no signup) and no generated route is bound to it.
C23_UsersTableUntouched ==
    /\ tables["users"] = UsersTable
    /\ \A i \in DOMAIN routes : routes[i].model.tableName # "users"

\* C24: a step of a CRUD request (start, Table Store call, failure) leaves the
\* registry and the routes unchanged; the registry changes only in the step
\* in which a boot or publish registration runs registerModel.
C24_CrudKeepsRegistry ==
    [][/\ req' # req => (dynamicModels' = dynamicModels /\ routes' = routes)
       /\ dynamicModels' # dynamicModels =>
             /\ req' = req
             /\ \/ boot.pc = "next" /\ boot'.pc = "sync"
                \/ \E p \in Publishers :
                      pub[p].pc # "syncing" /\ pub'[p].pc = "syncing"]_vars

\* a request whose Table Store call failed was answered and the model it
\* addressed is still registered
C24_Witness ==
    /\ req.pc = "done"
    /\ req.route # 0
    /\ req.ops > 0
    /\ req.status \in {400, 500}
    /\ routes[req.route].config.name \in DOMAIN dynamicModels

\* C25: no step removes a name from the registry, and a name enters the
\* registry only by a registration that has succeeded (a boot registration
\* logged as registered, or a publish answered 201).
C25_Lifecycle ==
    [][/\ DOMAIN dynamicModels \subseteq DOMAIN dynamicModels'
       /\ \A n \in DOMAIN dynamicModels' \ DOMAIN dynamicModels :
             \/ /\ ConfigFile(n) \in DOMAIN boot'.log
                /\ boot'.log[ConfigFile(n)] = "registered"
             \/ \E p \in Publishers :
                   /\ pub'[p].pc = "done"
                   /\ pub'[p].status = 201
                   /\ pub'[p].cfg.name = n]_vars

(***************************************************************************)
(* The server with its scheduling: the event loop runs every continuation  *)
(* that is ready, the File Store answers every write, and a Table Store    *)
(* call that does not return is rejected after the bounded timeout of the  *)
(* Sequelize configuration (./db, required at src/server/index.js:7).      *)
(***************************************************************************)
\* a configuration without a timeout: a pending call is never rejected
NoStorageTimeout(w) == w = "never" /\ UNCHANGED vars

\* the pending Table Store call of the request, of the boot loader or of a
\* publisher is rejected
StorageTimeout(w) ==
    \/ w = "req" /\ ReqCallFail
    \/ w = "boot" /\ BootSync(FALSE)
    \/ w \in Publishers /\ PublishSyncFail(w)

\* the publishes of the fair runs: one that is rejected by the check, one of
\* a new name and one that redefines Product
LivePublishRequests(p) ==
    IF p = "p1"
    THEN {<<"Admin", EmptyName>>, <<"Admin", OrderV1>>}
    ELSE {<<"Admin", ProductV2>>}

\* the requests of the fair runs: the five CRUD operations by an Admin, on
\* the first primary key
LiveRequests ==
    {rq \in Requests :
        rq[2] = "Admin" /\ (rq[1].seg.kind = "id" => rq[1].seg.id = 1)}

NextLive ==
    \/ BootRead
    \/ \E ok \in BOOLEAN : BootSync(ok)
    \/ BootListen
    \/ \E p \in Publishers : \E pr \in LivePublishRequests(p) :
          PublishStart(p, pr[1], pr[2])
    \/ \E p \in Publishers : PublishWrite(p)
    \/ \E p \in Publishers : PublishWriteFail(p)
    \/ \E p \in Publishers : PublishRegister(p)
    \/ \E p \in Publishers : PublishSync(p)
    \/ \E p \in Publishers : PublishSyncFail(p)
    \/ \E rq \in LiveRequests :
          ReqStart(rq[1].method, rq[1].base, rq[1].seg, rq[2])
    \/ ReqFirstCall
    \/ ReqSecondCall
    \/ ReqCallFail

SpecLive ==
    /\ Init
    /\ [][NextLive]_vars
    /\ WF_vars(BootRead)
    /\ WF_vars(BootListen)
    /\ \A p \in Publishers : WF_vars(PublishWrite(p) \/ PublishWriteFail(p))
    /\ \A p \in Publishers : WF_vars(PublishRegister(p))
    /\ \A w \in {"req", "boot"} \cup Publishers : WF_vars(StorageTimeout(w))

C27_NoRetry ==
    [][/\ ReqCallFail =>
             /\ req'.pc = "done"
             /\ req'.status \in {400, 500}
             /\ req'.ops = req.ops + 1
             /\ tables' = tables
       /\ (req.pc = "done" /\ nreq' = nreq) => req' = req]_vars

\* an Update whose findByPk succeeded and whose item.update was rejected was
\* answered after exactly these two calls
C27_Witness ==
    /\ req.pc = "done"
    /\ req.handler = "Update"
    /\ req.status = 400
    /\ req.ops = 2

\* C28: while a publish of another name is waiting on the File Store or the
\* Table Store, every step of a publish is enabled: its write, its
\* registration and its sync.
C28_PublishesIndependent ==
    \A p, q \in Publishers :
        (/\ p # q
         /\ InFlight(q)
         /\ pub[p].cfg.name # pub[q].cfg.name)
            => /\ pub[p].pc = "writing" => ENABLED PublishWrite(p)
               /\ pub[p].pc = "written" => ENABLED PublishRegister(p)
               /\ pub[p].pc = "syncing" => ENABLED PublishSync(p)

\* a publish was written, registered and answered 201 while a publish of
\* another name, registered before it, still waits on its sync
C28_Witness ==
    \E p, q \in Publishers :
        /\ Published(p)
        /\ pub[q].pc = "syncing"
        /\ pub[p].cfg.name # pub[q].cfg.name
        /\ pub[p].reg > pub[q].reg

\* C29: a GetById, Update or Delete by a role the route's matrix does not
\* allow the action is answered 403 with an empty body and without a Table
\* Store call, for every id, in the table or not.
C29_DeniedWhateverId ==
    [][(/\ nreq' # nreq
        /\ req'.seg.kind = "id"
        /\ FirstRoute(routes, req'.base) # 0
        /\ ~Permits(routes[FirstRoute(routes, req'.base)].config.rbac,
                    req'.role, ActionOfMethod(req'.method)))
          => /\ req'.pc = "done"
             /\ req'.status = 403
             /\ req'.body = {}
             /\ req'.ops = 0
             /\ tables' = tables]_vars

\* a Viewer's Delete of an id the table does not hold was answered 403
C29_Witness ==
    /\ req.pc = "done"
    /\ req.handler = "Delete"
    /\ req.role = "Viewer"
    /\ req.status = 403
    /\ req.seg.id \notin DOMAIN RowsOf(ReqModel)
    /\ 1 \in DOMAIN RowsOf(ReqModel)

\* C30: while the boot loader runs no request and no publish is handled; the
\* server listens only once the loader has ended, with every file taken from
\* its list or with an error; and a loader that ended with an error does not
\* keep the server from listening.
C30_ListenAfterBoot ==
    /\ [](/\ phase = "boot" =>
              /\ req.pc = "idle" /\ nreq = 0
              /\ \A p \in Publishers : pub[p].pc = "idle"
          /\ phase = "listening" => boot.pc = "done"
          /\ (phase = "boot" /\ boot.pc = "done" /\ boot.error)
                => ENABLED BootListen)
    /\ [][(phase = "boot" /\ phase' = "listening") =>
             \/ boot.pc = "done" /\ boot.error
             \/ boot.pc = "next" /\ boot.queue = <<>>]_vars

\* a request was answered by a server whose boot loading ended with an error
C30_Witness ==
    /\ phase = "listening"
    /\ boot.error
    /\ req.pc = "done"
    /\ req.status = 200

====
